---- MODULE Spec2Model ----
\* Model of verify-api.py: the path normaliser, the two extractors and the
\* consistency reporter (main).  Python strings are sequences of
\* one-character strings, so that replace / lstrip / re.sub / `in` are
\* computed character by character as the interpreter computes them.
EXTENDS Integers, Sequences, FiniteSets

VARIABLES
    pc,               \* position of the run
    npath,            \* normalize_path: the argument
    nout,             \* normalize_path(npath)
    nout2,            \* normalize_path(nout)
    shape,            \* a path as its segments (literal or parameter)
    text1, text2,     \* two spellings of that path
    out1, out2,       \* their normalised forms
    backend_routes,   \* main: route groups, file stem -> list of routes
    frontend_calls,   \* main: list of frontend calls
    backend_set,      \* main: normalised backend keys
    frontend_set,     \* main: normalised frontend keys
    missing_backend,  \* main: frontend calls judged not found
    issues_found,     \* main: the failure flag
    ek,               \* main: index of the next feature expectation
    feat,             \* main: per expectation, frontend_has and backend_has
    ret,              \* main: the exit status (-1 until main returns)
    api_file,         \* extractors: the frontend file, as its call sites
    route_files,      \* extractors: the route files, stem -> call sites
    api_calls,        \* extract_frontend_api_calls: the result
    routes            \* extract_backend_routes: the result

normVars == << npath, nout, nout2 >>
synVars == << shape, text1, text2, out1, out2 >>
inputVars == << backend_routes, frontend_calls >>
mainVars ==
    << backend_routes, frontend_calls, backend_set, frontend_set,
       missing_backend, issues_found, ek, feat, ret >>
extVars == << api_file, route_files, api_calls, routes >>
vars == << pc, normVars, synVars, mainVars, extVars >>

-----------------------------------------------------------------------------
\* Values of the variables a specification does not use

MainIdle ==
    /\ backend_routes = << >>
    /\ frontend_calls = << >>
    /\ backend_set = { }
    /\ frontend_set = { }
    /\ missing_backend = << >>
    /\ issues_found = FALSE
    /\ ek = 1
    /\ feat = << >>
    /\ ret = -1

ExtIdle ==
    api_file = << >> /\ route_files = << >> /\ api_calls = << >> /\ routes = << >>

NormIdle == npath = << >> /\ nout = << >> /\ nout2 = << >>
SynIdle ==
    shape = << >> /\ text1 = << >> /\ text2 = << >> /\ out1 = << >> /\ out2 = << >>

-----------------------------------------------------------------------------
\* String literals of the source

Slash == "/"
ApiPrefix == <<"/","a","p","i","/">>
ParamToken == <<":","i","d">>
TemplateOpen == <<"$","{">>
TemplateClose == "}"
Colon == ":"

-----------------------------------------------------------------------------
\* Python string primitives

\* s[i:i+len(t)] == t   (1-based i)
MatchesAt(s, t, i) ==
    /\ i + Len(t) - 1 <= Len(s)
    /\ \A k \in 1..Len(t) : s[i + k - 1] = t[k]

\* t in s
Contains(s, t) == \E i \in 1..(Len(s) - Len(t) + 1) : MatchesAt(s, t, i)

\* s.replace(old, new): leftmost, non-overlapping occurrences, one pass
RECURSIVE ReplaceFrom(_, _, _, _)
ReplaceFrom(s, old, new, i) ==
    IF i > Len(s) THEN << >>
    ELSE IF MatchesAt(s, old, i)
         THEN new \o ReplaceFrom(s, old, new, i + Len(old))
         ELSE << s[i] >> \o ReplaceFrom(s, old, new, i + 1)

str_replace(s, old, new) == ReplaceFrom(s, old, new, 1)

\* s.lstrip(c)
RECURSIVE lstrip(_, _)
lstrip(s, c) == IF s # << >> /\ Head(s) = c THEN lstrip(Tail(s), c) ELSE s

\* index of the first occurrence of character c at or after i, Len(s)+1 if none
RECURSIVE IndexFrom(_, _, _)
IndexFrom(s, c, i) ==
    IF i > Len(s) THEN Len(s) + 1
    ELSE IF s[i] = c THEN i ELSE IndexFrom(s, c, i + 1)

\* re.sub(r'\$\{[^}]+\}', ':id', s): a match starts at "${", needs at least one
\* character other than "}" and ends at the first "}" after it
TemplateMatchAt(s, i) ==
    /\ MatchesAt(s, TemplateOpen, i)
    /\ i + 2 <= Len(s)
    /\ s[i + 2] # TemplateClose
    /\ IndexFrom(s, TemplateClose, i + 3) <= Len(s)

RECURSIVE SubTemplateFrom(_, _)
SubTemplateFrom(s, i) ==
    IF i > Len(s) THEN << >>
    ELSE IF TemplateMatchAt(s, i)
         THEN ParamToken \o SubTemplateFrom(s, IndexFrom(s, TemplateClose, i + 3) + 1)
         ELSE << s[i] >> \o SubTemplateFrom(s, i + 1)

\* mutant: template placeholders are left as written
sub_template_skipped(s) == s

sub_template(s) == SubTemplateFrom(s, 1)

\* re.sub(r':[^/]+', ':id', s): a match starts at ":", needs at least one
\* character other than "/" and runs (greedily) up to the next "/" or the end
ColonMatchAt(s, i) ==
    /\ s[i] = Colon
    /\ i + 1 <= Len(s)
    /\ s[i + 1] # Slash

RECURSIVE SubColonFrom(_, _)
SubColonFrom(s, i) ==
    IF i > Len(s) THEN << >>
    ELSE IF ColonMatchAt(s, i)
         THEN ParamToken \o SubColonFrom(s, IndexFrom(s, Slash, i + 1))
         ELSE << s[i] >> \o SubColonFrom(s, i + 1)

sub_colon(s) == SubColonFrom(s, 1)

-----------------------------------------------------------------------------
\* normalize_path

normalize_path(path) ==
    LET p1 == str_replace(path, ApiPrefix, << Slash >>)
        p2 == lstrip(p1, Slash)
        p3 == sub_template(p2)
        p4 == sub_colon(p3)
    IN  p4

-----------------------------------------------------------------------------
\* Specification SpecNorm: normalize_path applied to a path, then to its result

MaxFrags == 4

Fragments ==
    { << "/" >>, << "a", "p", "i" >>, ApiPrefix, << "x" >>, << ":" >>,
      TemplateOpen, << "}" >> }

RECURSIVE Paths(_)
Paths(n) ==
    IF n = 0 THEN { << >> }
    ELSE LET shorter == Paths(n - 1)
         IN  shorter \cup { p \o f : p \in shorter, f \in Fragments }

InitNorm ==
    /\ pc = "input"
    /\ npath \in Paths(MaxFrags)
    /\ nout = << >>
    /\ nout2 = << >>
    /\ SynIdle
    /\ MainIdle
    /\ ExtIdle

Normalize ==
    /\ pc = "input"
    /\ nout' = normalize_path(npath)
    /\ pc' = "normalized"
    /\ UNCHANGED << npath, nout2, synVars, mainVars, extVars >>

Renormalize ==
    /\ pc = "normalized"
    /\ nout2' = normalize_path(nout)
    /\ pc' = "renormalized"
    /\ UNCHANGED << npath, nout, synVars, mainVars, extVars >>

NextNorm == Normalize \/ Renormalize

SpecNorm == InitNorm /\ [][NextNorm]_vars

\* C4: normalising an already-normalised path changes nothing
C4_Idempotent == pc = "renormalized" => nout2 = nout

\* C5: the normalised form of a path that contains "/api/" contains no "/api/"
C5_NoApiSegmentLeft ==
    (pc = "normalized" /\ Contains(npath, ApiPrefix)) => ~Contains(nout, ApiPrefix)

-----------------------------------------------------------------------------
\* Specification SpecSyntax: normalize_path applied to two spellings of one path.
\* A path is a sequence of segments: the literal "users", the literal "api" or a
\* parameter.  A spelling writes each parameter as ":uid" or as "${userId}",
\* may put "/api/" in front, and may put separators in front of that.

MaxSegs == 2
MaxLead == 2

LitUsers == <<"u","s","e","r","s">>
LitApi == <<"a","p","i">>
ColonParam == <<":","u","i","d">>
TemplateParam == <<"$","{","u","s","e","r","I","d","}">>

SegKinds == { "users", "api", "param" }

Shapes == UNION { [1..n -> SegKinds] : n \in 0..MaxSegs }

Spellings(sh) ==
    [ lead : 0..MaxLead, api : BOOLEAN,
      tmpl : SUBSET { k \in 1..Len(sh) : sh[k] = "param" } ]

SegText(sh, sp, k) ==
    CASE sh[k] = "users" -> LitUsers
      [] sh[k] = "api" -> LitApi
      [] sh[k] = "param" -> IF k \in sp.tmpl THEN TemplateParam ELSE ColonParam

RECURSIVE JoinFrom(_, _, _)
JoinFrom(sh, sp, k) ==
    IF k > Len(sh) THEN << >>
    ELSE SegText(sh, sp, k)
         \o (IF k < Len(sh) THEN << Slash >> ELSE << >>)
         \o JoinFrom(sh, sp, k + 1)

Spell(sh, sp) ==
    [ k \in 1..sp.lead |-> Slash ]
    \o (IF sp.api THEN ApiPrefix ELSE << >>)
    \o JoinFrom(sh, sp, 1)

InitSyntax ==
    /\ pc = "spelled"
    /\ shape \in Shapes
    /\ \E sp1, sp2 \in Spellings(shape) :
          text1 = Spell(shape, sp1) /\ text2 = Spell(shape, sp2)
    /\ out1 = << >>
    /\ out2 = << >>
    /\ NormIdle
    /\ MainIdle
    /\ ExtIdle

NormalizeBoth ==
    /\ pc = "spelled"
    /\ out1' = normalize_path(text1)
    /\ out2' = normalize_path(text2)
    /\ pc' = "compared"
    /\ UNCHANGED << shape, text1, text2, normVars, mainVars, extVars >>

NextSyntax == NormalizeBoth

SpecSyntax == InitSyntax /\ [][NextSyntax]_vars

\* the two paths of the example, and the form both are to reduce to
ExampleColon == ApiPrefix \o LitUsers \o << Slash >> \o ParamToken
ExampleTemplate == LitUsers \o << Slash >> \o TemplateParam
ExampleNormal == LitUsers \o << Slash >> \o ParamToken

\* the path proper begins with the literal segment "api" and a separator
BeginsWithApiSegment == Len(shape) >= 2 /\ shape[1] = "api"

\* C6 as stated: two spellings of one path that differ only in parameter
\* syntax, in a leading "/api/" or in leading separators normalise to the same
\* string, and the two example paths both normalise to "users/:id"
C6_SpellingsAgree ==
    pc = "compared" =>
        /\ out1 = out2
        /\ normalize_path(ExampleColon) = ExampleNormal
        /\ normalize_path(ExampleTemplate) = ExampleNormal

\* C6 as amended: the same, for paths whose first segment is not the literal
\* "api" followed by a separator
C6_SpellingsAgreeUnlessApiFirst ==
    (pc = "compared" /\ ~BeginsWithApiSegment) =>
        /\ out1 = out2
        /\ normalize_path(ExampleColon) = ExampleNormal
        /\ normalize_path(ExampleTemplate) = ExampleNormal

\* C6 witness: a path with a literal and a parameter, spelled once with
\* "/api/" and a colon parameter and once bare with a template parameter
C6_Witness ==
    /\ pc = "compared"
    /\ shape = << "users", "param" >>
    /\ text1 = ApiPrefix \o LitUsers \o << Slash >> \o ColonParam
    /\ text2 = ExampleTemplate
    /\ out1 = ExampleNormal
    /\ out2 = ExampleNormal

-----------------------------------------------------------------------------
\* main: the consistency reporter

MethodGET == <<"G","E","T">>
MethodPOST == <<"P","O","S","T">>
MethodPUT == <<"P","U","T">>

GetUsers == [ method |-> MethodGET, path |-> <<"/","u","s","e","r","s">> ]

\* the values of v22_features, feature by feature, in table order
v22_features ==
    << [ feature |-> "TAKARA Boost",
         route |-> <<"P","O","S","T",":","/","i","n","v","e","s","t","m","e","n","t","s","/",":","i","d","/","b","o","o","s","t","/","t","a","k","a","r","a">> ],
       [ feature |-> "TAKARA Boost",
         route |-> <<"G","E","T",":","/","i","n","v","e","s","t","m","e","n","t","s","/",":","i","d","/","b","o","o","s","t","/","t","a","k","a","r","a">> ],
       [ feature |-> "Instant Sale",
         route |-> <<"P","U","T",":","/","i","n","v","e","s","t","m","e","n","t","s","/",":","i","d","/","i","n","s","t","a","n","t","-","s","a","l","e">> ],
       [ feature |-> "Instant Sale",
         route |-> <<"P","O","S","T",":","/","i","n","v","e","s","t","m","e","n","t","s","/",":","i","d","/","i","n","s","t","a","n","t","-","s","a","l","e","/","e","x","e","c","u","t","e">> ],
       [ feature |-> "Instant Sale",
         route |-> <<"G","E","T",":","/","i","n","v","e","s","t","m","e","n","t","s","/",":","i","d","/","i","n","s","t","a","n","t","-","s","a","l","e","/","p","r","i","c","e">> ] >>

\* route.split(':', 1)
split_method(route) == SubSeq(route, 1, IndexFrom(route, Colon, 1) - 1)
split_path(route) == SubSeq(route, IndexFrom(route, Colon, 1) + 1, Len(route))

\* f"{method}:{normalized}"
KeyOf(r) == r.method \o << Colon >> \o normalize_path(r.path)

\* every route of every group
AllRoutes(groups) ==
    UNION { { groups[g][k] : k \in 1..Len(groups[g]) } : g \in DOMAIN groups }

Elements(list) == { list[k] : k \in 1..Len(list) }

\* mutant: only an identical key counts
KeyFoundExactOnly(key, bset) == key \in bset

\* mutant: ":id" is removed from both keys before the containment tests
KeyFoundBothStripped(key, bset) ==
    \E backend_key \in bset :
        \/ backend_key = key
        \/ Contains(str_replace(key, ParamToken, << >>),
                    str_replace(backend_key, ParamToken, << >>))
        \/ Contains(str_replace(backend_key, ParamToken, << >>),
                    str_replace(key, ParamToken, << >>))

\* the loop over backend_set: identical key, or the backend key without ":id"
\* occurs in the key, or the key without ":id" occurs in the backend key
KeyFound(key, bset) ==
    \E backend_key \in bset :
        \/ backend_key = key
        \/ Contains(key, str_replace(backend_key, ParamToken, << >>))
        \/ Contains(backend_key, str_replace(key, ParamToken, << >>))

\* mutant: the calls that are found are appended
RECURSIVE MissingFromInverted(_, _, _)
MissingFromInverted(calls, bset, k) ==
    IF k > Len(calls) THEN << >>
    ELSE (IF KeyFound(KeyOf(calls[k]), bset) THEN << calls[k] >> ELSE << >>)
         \o MissingFromInverted(calls, bset, k + 1)

\* the calls appended to missing_backend, in call order
RECURSIVE MissingFrom(_, _, _)
MissingFrom(calls, bset, k) ==
    IF k > Len(calls) THEN << >>
    ELSE (IF KeyFound(KeyOf(calls[k]), bset) THEN << >> ELSE << calls[k] >>)
         \o MissingFrom(calls, bset, k + 1)

\* mutant: the record's path is compared as written
HasRouteRaw(records, method, normalized) ==
    \E c \in records :
        /\ c.method = method
        /\ \/ Contains(normalized, c.path)
           \/ Contains(c.path, normalized)

\* any(... for c in records if c['method'] == method)
HasRoute(records, method, normalized) ==
    \E c \in records :
        /\ c.method = method
        /\ \/ Contains(normalized, normalize_path(c.path))
           \/ Contains(normalize_path(c.path), normalized)

BuildSets ==
    /\ pc = "start"
    /\ backend_set' = { KeyOf(r) : r \in AllRoutes(backend_routes) }
    /\ frontend_set' = { KeyOf(c) : c \in Elements(frontend_calls) }
    /\ pc' = "check"
    /\ UNCHANGED << inputVars, missing_backend, issues_found, ek, feat, ret >>
    /\ UNCHANGED << normVars, synVars, extVars >>

CheckMissing ==
    /\ pc = "check"
    /\ missing_backend' = MissingFrom(frontend_calls, backend_set, 1)
    /\ issues_found' = (missing_backend' # << >>)
    /\ pc' = "features"
    /\ UNCHANGED << inputVars, backend_set, frontend_set, ek, feat, ret >>
    /\ UNCHANGED << normVars, synVars, extVars >>

\* mutant: the flag is assigned the outcome of the current expectation
CheckFeatureOverwrite ==
    /\ pc = "features"
    /\ ek <= Len(v22_features)
    /\ LET route == v22_features[ek].route
           method == split_method(route)
           normalized == normalize_path(split_path(route))
           frontend_has == HasRoute(Elements(frontend_calls), method, normalized)
           backend_has == HasRoute(AllRoutes(backend_routes), method, normalized)
       IN  /\ feat' = Append(feat, [ frontend_has |-> frontend_has,
                                      backend_has |-> backend_has ])
           /\ issues_found' = ~(frontend_has /\ backend_has)
    /\ ek' = ek + 1
    /\ UNCHANGED << pc, inputVars, backend_set, frontend_set, missing_backend, ret >>
    /\ UNCHANGED << normVars, synVars, extVars >>

CheckFeature ==
    /\ pc = "features"
    /\ ek <= Len(v22_features)
    /\ LET route == v22_features[ek].route
           method == split_method(route)
           normalized == normalize_path(split_path(route))
           frontend_has == HasRoute(Elements(frontend_calls), method, normalized)
           backend_has == HasRoute(AllRoutes(backend_routes), method, normalized)
       IN  /\ feat' = Append(feat, [ frontend_has |-> frontend_has,
                                      backend_has |-> backend_has ])
           /\ issues_found' =
                 IF ~(frontend_has /\ backend_has) THEN TRUE ELSE issues_found
    /\ ek' = ek + 1
    /\ UNCHANGED << pc, inputVars, backend_set, frontend_set, missing_backend, ret >>
    /\ UNCHANGED << normVars, synVars, extVars >>

Summary ==
    /\ pc = "features"
    /\ ek > Len(v22_features)
    /\ ret' = IF ~issues_found THEN 0 ELSE 1
    /\ pc' = "done"
    /\ UNCHANGED << inputVars, backend_set, frontend_set, missing_backend,
                    issues_found, ek, feat >>
    /\ UNCHANGED << normVars, synVars, extVars >>

Next == BuildSets \/ CheckMissing \/ CheckFeature \/ Summary

-----------------------------------------------------------------------------
\* Specification Spec: main on the calls and routes of two small pools

MaxCalls == 3
MaxRoutes == 3

FrontPool ==
    << [ method |-> MethodGET, path |-> <<"/","u","s","e","r","s">> ],
       [ method |-> MethodPOST,
         path |-> <<"/","o","r","d","e","r","s","/",":","i","d","/","c","a","n","c","e","l">> ],
       [ method |-> MethodPUT, path |-> <<"/","i","d">> ],
       [ method |-> MethodGET,
         path |-> <<"/","a","p","i","/","i","n","v","e","s","t","m","e","n","t","s","/","$","{","i","n","v","e","s","t","m","e","n","t","I","d","}">> ],
       [ method |-> MethodPOST, path |-> <<"/","i","n","v","e","s","t","m","e","n","t","s">> ] >>

BackPool ==
    << [ group |-> "users.routes", method |-> MethodGET, path |-> <<"/","u","s","e","r","s">> ],
       [ group |-> "orders.routes", method |-> MethodPOST, path |-> <<"/","o","r","d","e","r","s">> ],
       [ group |-> "orders.routes", method |-> MethodPOST,
         path |-> <<"/","o","r","d","e","r","s","/",":","o","r","d","e","r","I","d","/","c","a","n","c","e","l","/","n","o","w">> ],
       [ group |-> "admin.routes", method |-> MethodGET, path |-> <<"/","O","U","T","P","U","T">> ],
       [ group |-> "investments.routes", method |-> MethodGET,
         path |-> <<"/","i","n","v","e","s","t","m","e","n","t","s","/",":","i","d">> ],
       [ group |-> "investments.routes", method |-> MethodPOST,
         path |-> <<"/","i","n","v","e","s","t","m","e","n","t","s">> ],
       [ group |-> "investments.routes", method |-> MethodPUT,
         path |-> <<"/","i","n","v","e","s","t","m","e","n","t","s","/",":","i","d","/","i","n","s","t","a","n","t","-","s","a","l","e">> ] >>

\* the entries of pool chosen by the index set S, in pool order
RECURSIVE Pick(_, _, _)
Pick(pool, S, k) ==
    IF k > Len(pool) THEN << >>
    ELSE (IF k \in S THEN << [ method |-> pool[k].method, path |-> pool[k].path ] >>
          ELSE << >>)
         \o Pick(pool, S, k + 1)

\* the chosen routes grouped by file stem; a group exists once it has a route
Grouped(pool, S) ==
    [ g \in { pool[k].group : k \in S } |->
        Pick(pool, { k \in S : pool[k].group = g }, 1) ]

MainStart ==
    /\ pc = "start"
    /\ backend_set = { }
    /\ frontend_set = { }
    /\ missing_backend = << >>
    /\ issues_found = FALSE
    /\ ek = 1
    /\ feat = << >>
    /\ ret = -1
    /\ NormIdle
    /\ SynIdle
    /\ ExtIdle

Init ==
    /\ \E S \in SUBSET (1..Len(FrontPool)) :
          /\ Cardinality(S) <= MaxCalls
          /\ frontend_calls = Pick(FrontPool, S, 1)
    /\ \E S \in SUBSET (1..Len(BackPool)) :
          /\ Cardinality(S) <= MaxRoutes
          /\ backend_routes = Grouped(BackPool, S)
    /\ MainStart

Spec == Init /\ [][Next]_vars

-----------------------------------------------------------------------------
\* Properties of main

\* the missing-backend check has just run
Checked == pc = "features" /\ ek = 1

AllExpectationsPresent ==
    /\ Len(feat) = Len(v22_features)
    /\ \A k \in 1..Len(feat) : feat[k].frontend_has /\ feat[k].backend_has

\* C1: a completed run returns 0 exactly when missing_backend is empty and all
\* five expectations were judged present on both sides, and 1 otherwise; the
\* failure flag, once set, stays set
C1_ExitStatus ==
    /\ [](pc = "done" =>
            /\ ret \in { 0, 1 }
            /\ ret = 0 <=> (missing_backend = << >> /\ AllExpectationsPresent))
    /\ [][issues_found => issues_found']_vars

\* C1 witness: a completed run over a non-empty call list that returns 0
C1_Witness ==
    /\ pc = "done"
    /\ ret = 0
    /\ frontend_calls # << >>
    /\ missing_backend = << >>
    /\ AllExpectationsPresent

\* one group with the single route GET '/users', one call GET '/users'
UsersOnly ==
    /\ backend_routes = [ g \in { "users.routes" } |-> << GetUsers >> ]
    /\ frontend_calls = << GetUsers >>

\* C2 as stated: on GET '/users' against GET '/users' the run reports no
\* missing-backend discrepancy and returns 0
C2_UsersOnlyExitsZero ==
    (pc = "done" /\ UsersOnly) => (missing_backend = << >> /\ ret = 0)

\* C2 as amended: on GET '/users' against GET '/users' the run reports no
\* missing-backend discrepancy, judges every feature expectation absent on both
\* sides, and returns 1
C2_UsersOnlyExitsOne ==
    (pc = "done" /\ UsersOnly) =>
        /\ missing_backend = << >>
        /\ \A k \in 1..Len(feat) : ~feat[k].frontend_has /\ ~feat[k].backend_has
        /\ ret = 1

\* C2 witness: the completed run on GET '/users' against GET '/users'
C2_Witness ==
    /\ pc = "done"
    /\ UsersOnly
    /\ backend_set = frontend_set
    /\ Cardinality(backend_set) = 1
    /\ Len(feat) = Len(v22_features)

WithoutParam(key) == str_replace(key, ParamToken, << >>)

SameRoute(r, c) ==
    r.method = c.method /\ normalize_path(r.path) = normalize_path(c.path)

\* one key with ":id" removed occurs in the other key as it stands
OneSidedMatch(r, c) ==
    \/ Contains(KeyOf(c), WithoutParam(KeyOf(r)))
    \/ Contains(KeyOf(r), WithoutParam(KeyOf(c)))

\* both keys with ":id" removed, one occurring in the other
BothSidedMatch(r, c) ==
    \/ Contains(WithoutParam(KeyOf(c)), WithoutParam(KeyOf(r)))
    \/ Contains(WithoutParam(KeyOf(r)), WithoutParam(KeyOf(c)))

Listed(c) == c \in Elements(missing_backend)

\* C3 as stated: a call with no backend route of the same method and the same
\* normalised path is listed as missing and the run returns 1
C3_UnmatchedCallListed ==
    pc = "done" =>
        \A c \in Elements(frontend_calls) :
            (\A r \in AllRoutes(backend_routes) : ~SameRoute(r, c))
                => (Listed(c) /\ ret = 1)

\* C3 as amended: a call with no backend route of the same method and the same
\* normalised path, and with no backend key matching its key after ":id" is
\* removed from one of the two, is listed as missing and the run returns 1
C3_UnmatchedCallListedUnlessFuzzy ==
    pc = "done" =>
        \A c \in Elements(frontend_calls) :
            (\A r \in AllRoutes(backend_routes) :
                 ~SameRoute(r, c) /\ ~OneSidedMatch(r, c))
                => (Listed(c) /\ ret = 1)

\* C3 witness: POST '/orders/:id/cancel' listed as missing although the backend
\* declares other routes, among them one under '/orders'
C3_Witness ==
    /\ pc = "done"
    /\ ret = 1
    /\ Listed(FrontPool[2])
    /\ BackPool[3].path \in { r.path : r \in AllRoutes(backend_routes) }
    /\ Cardinality(AllRoutes(backend_routes)) >= 2

\* C8 as stated: a call is judged found exactly when a backend key is identical
\* to its key or, ":id" removed from both keys, one occurs in the other
C8_FoundIffBothStripped ==
    Checked =>
        \A c \in Elements(frontend_calls) :
            ~Listed(c) <=>
                \E r \in AllRoutes(backend_routes) :
                    KeyOf(r) = KeyOf(c) \/ BothSidedMatch(r, c)

\* C8 as amended: a call is judged found exactly when a backend key is identical
\* to its key, or the backend key with ":id" removed occurs in the call's key as
\* it stands, or the call's key with ":id" removed occurs in the backend key as
\* it stands
C8_FoundIffOneStripped ==
    Checked =>
        \A c \in Elements(frontend_calls) :
            ~Listed(c) <=>
                \E r \in AllRoutes(backend_routes) :
                    KeyOf(r) = KeyOf(c) \/ OneSidedMatch(r, c)

\* C8 witness: a call judged not found against a backend key that the
\* both-sides rule would accept
C8_Witness ==
    /\ Checked
    /\ \E c \in Elements(frontend_calls) :
          /\ Listed(c)
          /\ \E r \in AllRoutes(backend_routes) : BothSidedMatch(r, c)

\* C10: a call judged found has a backend route of its own method
C10_FoundOnlyBySameMethod ==
    Checked =>
        \A c \in Elements(frontend_calls) :
            ~Listed(c) => \E r \in AllRoutes(backend_routes) : r.method = c.method

-----------------------------------------------------------------------------
\* Specification SpecFeat: main on declarations of the feature routes.  Each
\* side declares the five routes of v22_features but for at most MaxOmitted of
\* them, either as written in the table or under "/api" with the parameter as
\* a template placeholder; the frontend may also call GET '/users'.

MaxOmitted == 1

ApiRoot == <<"/","a","p","i">>
InvestmentParam == <<"$","{","i","n","v","e","s","t","m","e","n","t","I","d","}">>

FeatureGroup(k) ==
    IF v22_features[k].feature = "TAKARA Boost" THEN "takara-boost.routes" ELSE "instant-sale.routes"

Declared(k, templated) ==
    [ group |-> FeatureGroup(k),
      method |-> split_method(v22_features[k].route),
      path |-> IF templated
               THEN ApiRoot \o str_replace(split_path(v22_features[k].route),
                                           ParamToken, InvestmentParam)
               ELSE split_path(v22_features[k].route) ]

Declarations(templated) == [ k \in 1..Len(v22_features) |-> Declared(k, templated) ]

Kept == { S \in SUBSET (1..Len(v22_features)) :
            Cardinality(S) >= Len(v22_features) - MaxOmitted }

InitFeat ==
    /\ \E S \in Kept, templated \in BOOLEAN, extra \in BOOLEAN :
          frontend_calls =
              Pick(Declarations(templated), S, 1)
              \o (IF extra THEN << GetUsers >> ELSE << >>)
    /\ \E S \in Kept, templated \in BOOLEAN :
          backend_routes = Grouped(Declarations(templated), S)
    /\ MainStart

SpecFeat == InitFeat /\ [][Next]_vars

ExpectedMethod(k) == split_method(v22_features[k].route)
ExpectedPath(k) == normalize_path(split_path(v22_features[k].route))

\* every expectation has a record of its method whose normalised path is the
\* expectation's normalised path
AllDeclaredIn(records) ==
    \A k \in 1..Len(v22_features) :
        \E r \in records :
            r.method = ExpectedMethod(k) /\ normalize_path(r.path) = ExpectedPath(k)

FeaturesDone == pc = "features" /\ ek > Len(v22_features)

\* C7: when both sides declare all five expectations, with equal method and
\* equal normalised path, every expectation is judged present on both sides and
\* the feature check leaves the failure flag as the missing-backend check set it
C7_DeclaredFeaturesSatisfied ==
    ( /\ FeaturesDone
      /\ AllDeclaredIn(Elements(frontend_calls))
      /\ AllDeclaredIn(AllRoutes(backend_routes)) )
    => ( /\ AllExpectationsPresent
         /\ issues_found <=> (missing_backend # << >>) )

\* C7 witness: all five declared on both sides in different spellings, with an
\* unrelated call already reported missing
C7_Witness ==
    /\ FeaturesDone
    /\ AllDeclaredIn(Elements(frontend_calls))
    /\ AllDeclaredIn(AllRoutes(backend_routes))
    /\ Elements(frontend_calls) \cap AllRoutes(backend_routes) = { }
    /\ missing_backend = << GetUsers >>
    /\ AllExpectationsPresent

-----------------------------------------------------------------------------
\* The extractors.  A file is the sequence of its call sites, in text order.
\* A site is written with a single- or double-quoted path argument and, in the
\* frontend, with or without a type-parameter segment; a site of kind "other"
\* is text that none of the patterns matches.

Whitespace == { " ", "\t", "\n" }

\* s.strip()
RECURSIVE rstrip_ws(_)
rstrip_ws(s) ==
    IF s # << >> /\ s[Len(s)] \in Whitespace THEN rstrip_ws(SubSeq(s, 1, Len(s) - 1)) ELSE s

RECURSIVE lstrip_ws(_)
lstrip_ws(s) == IF s # << >> /\ Head(s) \in Whitespace THEN lstrip_ws(Tail(s)) ELSE s

strip(s) == rstrip_ws(lstrip_ws(s))

\* method.upper(), on the letters of the five method names
UpperChar ==
    [ c \in { "g", "e", "t", "p", "o", "s", "u", "d", "l", "a", "c", "h" } |->
        CASE c = "g" -> "G" [] c = "e" -> "E" [] c = "t" -> "T" [] c = "p" -> "P"
          [] c = "o" -> "O" [] c = "s" -> "S" [] c = "u" -> "U" [] c = "d" -> "D"
          [] c = "l" -> "L" [] c = "a" -> "A" [] c = "c" -> "C" [] c = "h" -> "H" ]

upper(s) == [ k \in 1..Len(s) |-> UpperChar[s[k]] ]

\* the patterns of extract_frontend_api_calls, in list order
FrontendPatterns ==
    << [ typed |-> TRUE, quote |-> "single" ],
       [ typed |-> TRUE, quote |-> "double" ],
       [ typed |-> FALSE, quote |-> "single" ],
       [ typed |-> FALSE, quote |-> "double" ] >>

\* the patterns of extract_backend_routes, in list order
BackendPatterns == << [ quote |-> "single" ], [ quote |-> "double" ] >>

FrontendMatches(pattern, site) ==
    site.kind = "call" /\ site.typed = pattern.typed /\ site.quote = pattern.quote

BackendMatches(pattern, site) ==
    site.kind = "call" /\ site.quote = pattern.quote

\* re.findall(pattern, content) on the frontend file, as records
RECURSIVE FrontendFindall(_, _, _)
FrontendFindall(pattern, content, k) ==
    IF k > Len(content) THEN << >>
    ELSE (IF FrontendMatches(pattern, content[k])
          THEN << [ method |-> upper(content[k].method), path |-> content[k].path ] >>
          ELSE << >>)
         \o FrontendFindall(pattern, content, k + 1)

\* re.findall(pattern, content) on a route file, as records with the path stripped
RECURSIVE BackendFindall(_, _, _)
BackendFindall(pattern, content, k) ==
    IF k > Len(content) THEN << >>
    ELSE (IF BackendMatches(pattern, content[k])
          THEN << [ method |-> upper(content[k].method),
                    path |-> strip(content[k].path) ] >>
          ELSE << >>)
         \o BackendFindall(pattern, content, k + 1)

\* for pattern in patterns: ... api_calls.append(...)
RECURSIVE extract_frontend_api_calls(_, _)
extract_frontend_api_calls(content, p) ==
    IF p > Len(FrontendPatterns) THEN << >>
    ELSE FrontendFindall(FrontendPatterns[p], content, 1)
         \o extract_frontend_api_calls(content, p + 1)

\* for pattern in patterns: ... routes[route_file.stem].append(...)
RECURSIVE ExtractFile(_, _)
ExtractFile(content, p) ==
    IF p > Len(BackendPatterns) THEN << >>
    ELSE BackendFindall(BackendPatterns[p], content, 1) \o ExtractFile(content, p + 1)

\* routes = defaultdict(list): a group exists once a route was appended to it
extract_backend_routes(files) ==
    [ stem \in { f \in DOMAIN files : ExtractFile(files[f], 1) # << >> } |->
        ExtractFile(files[stem], 1) ]

ExtractBackend ==
    /\ pc = "files"
    /\ routes' = extract_backend_routes(route_files)
    /\ pc' = "routes_read"
    /\ UNCHANGED << api_file, route_files, api_calls >>
    /\ UNCHANGED << normVars, synVars, mainVars >>

ExtractFrontend ==
    /\ pc = "routes_read"
    /\ api_calls' = extract_frontend_api_calls(api_file, 1)
    /\ pc' = "extracted"
    /\ UNCHANGED << api_file, route_files, routes >>
    /\ UNCHANGED << normVars, synVars, mainVars >>

NextExtract == ExtractBackend \/ ExtractFrontend

-----------------------------------------------------------------------------
\* Specification SpecExtract: the extractors on files of at most MaxSites sites

MaxSites == 2

LowerGet == <<"g","e","t">>
LowerPost == <<"p","o","s","t">>
UsersPath == <<"/","u","s","e","r","s">>
OrdersPath == <<"/","o","r","d","e","r","s">>
PaddedPath == <<" ","/","u","s","e","r","s"," ">>

Other == [ kind |-> "other" ]

FrontendSites ==
    { [ kind |-> "call", typed |-> t, quote |-> q, method |-> m.method, path |-> m.path ] :
        t \in BOOLEAN, q \in { "single", "double" },
        m \in { [ method |-> LowerGet, path |-> UsersPath ],
                [ method |-> LowerPost, path |-> OrdersPath ] } }
    \cup { Other }

BackendSites ==
    { [ kind |-> "call", quote |-> q, method |-> m.method, path |-> m.path ] :
        q \in { "single", "double" },
        m \in { [ method |-> LowerGet, path |-> UsersPath ],
                [ method |-> LowerPost, path |-> OrdersPath ] } }
    \cup { [ kind |-> "call", quote |-> "single", method |-> LowerGet, path |-> PaddedPath ],
           Other }

Files(sites) == UNION { [1..n -> sites] : n \in 0..MaxSites }

InitExtract ==
    /\ pc = "files"
    /\ api_file \in Files(FrontendSites)
    /\ route_files \in [ { "users.routes" } -> Files(BackendSites) ]
    /\ api_calls = << >>
    /\ routes = << >>
    /\ NormIdle
    /\ SynIdle
    /\ MainIdle

SpecExtract == InitExtract /\ [][NextExtract]_vars

\* the records of the call sites of a file, in text order
RECURSIVE InTextOrder(_, _)
InTextOrder(content, k) ==
    IF k > Len(content) THEN << >>
    ELSE (IF content[k].kind = "call"
          THEN << [ method |-> upper(content[k].method), path |-> strip(content[k].path) ] >>
          ELSE << >>)
         \o InTextOrder(content, k + 1)

\* C9: the i-th record of the frontend call list, and of each backend group, is
\* the i-th matching call site of the file
C9_SourceOrder ==
    pc = "extracted" =>
        /\ api_calls = InTextOrder(api_file, 1)
        /\ \A stem \in DOMAIN routes : routes[stem] = InTextOrder(route_files[stem], 1)

====
